---- MODULE Spec2Model ----
(***************************************************************************)
(* Shorelark: the genetic-algorithm engine (libs/genetic-algorithm) and    *)
(* the simulation controller that drives it (libs/simulation).             *)
(*                                                                         *)
(* Numbers.  Genes are f32 in the source; here a gene is an integer count  *)
(* of units of 1/(CoeffDen*FloatRange), so that sign * coeff * U is exact: *)
(* coeff is a numerator over CoeffDen and U = u/FloatRange for a raw draw  *)
(* u in 0..FloatRange-1.  Rounding of f32 arithmetic is not modelled.      *)
(* A probability is a numerator over ChanceDen.                            *)
(*                                                                         *)
(* Random source.  Every call into the generator is one raw draw from a    *)
(* small range; gen_bool, gen::<f32> and choose_weighted turn the raw      *)
(* value into their result the way the rand crate does.                    *)
(***************************************************************************)
EXTENDS Integers, Sequences, FiniteSets, TLC

\* ---------------------------------------------------------------- bounds

\* Largest input population of GeneticAlgorithm::evolve and of select.
MaxPop == 2

\* Longest chromosome.
MaxLen == 2

\* Raw values of one gen_bool draw: 0..BoolRange-1.
BoolRange == 2

\* Raw values of one gen::<f32>() draw: U = u/FloatRange, u in 0..FloatRange-1.
FloatRange == 2

\* Denominator of a probability (chance is a numerator over ChanceDen).
ChanceDen == 100

\* Gene values of the input chromosomes.
GeneValues == {0, 1}

\* Fitness values of the input individuals of evolve.
FitnessValues == {-1, 0, 1}

\* Largest population of a lone select call.
MaxSelectPop == 3

\* Largest fitness of an input individual of a lone select call.
MaxFitness == 3

\* Raw values of one choose_weighted draw: the sampled weight is
\* total * s / SelectRange for s in 0..SelectRange-1.  Fine enough for every
\* weight of at least 1 to cover a sample point.
SelectRange == MaxSelectPop * MaxFitness

\* Largest world handed to a lone choose_best.
MaxWorldAnimals == 3

\* Steps of one generation: GENERATION_LENGTH, 2500 in the source
\* (libs/simulation/src/lib.rs:21), scaled down.
GENERATION_LENGTH == 3

\* Animals that choose_best builds: the 40 of its range 0..40
\* (libs/simulation/src/lib.rs:143), scaled down.
PopulationSize == 2

\* Foods of the world.
NumFoods == 2

\* Genes of an animal's chromosome (the weights of its brain).
BrainGenes == 1

\* Collisions stop once an animal's satiation would pass this.
MaxSatiation == 2

\* Generation boundaries that may fire in one run.
MaxGenerations == 1

\* GaussianMutation::new(0.01, 0.3) of Simulation::random: the chance over
\* ChanceDen and the coefficient in tenths.
SIM_MUTATION_CHANCE == 1
SIM_MUTATION_COEFF == 3

VARIABLES
    call,        \* the public operation under way
    pc,          \* position inside it
    population,  \* evolve/select: the input population (slice of individuals)
    chance,      \* GaussianMutation.chance, numerator over ChanceDen
    coeff,       \* GaussianMutation.coeff, numerator over CoeffDen
    slot,        \* evolve: offspring built so far (the map's index)
    parent_a,    \* chromosome of parent A
    parent_b,    \* chromosome of parent B
    flips,       \* crossover: the coin flips so far (TRUE: heads), in order
    child,       \* the chromosome being built by crossover, mutated by mutate
    crossed,     \* the chromosome as it was handed to mutate
    gene,        \* mutate: position of the gene the loop stands at
    sign,        \* mutate: the sign drawn for the current gene (0: none)
    offspring,   \* evolve: chromosomes handed to Individual::create, in order
    selected,    \* select: index of the individual returned (0: none)
    draws,       \* the draws the genetic-algorithm call under way has made on the
                 \* random source, in order
    animals,     \* Simulation.world.animals: satiation and chromosome of each
    foods,       \* Simulation.world.foods: how many there are
    age,         \* Simulation.age
    op,          \* the public operation of Simulation called last
    ret,         \* what that call returned
    in_train,    \* train's loop is running
    generation,  \* generation boundaries fired so far
    stats,       \* the statistics the last boundary handed to step's caller
    train_age,   \* age when the running train was called (-1: none)
    train_steps, \* calls of step the running train has made
    since_evolve, \* calls of step since the construction or the last evolve
    fresh,       \* choose_best: chromosome of its Animal::random (<<>>: none)
    positions,   \* animal.position of each animal, [x, y] in thousandths
    rotations,   \* animal.rotation of each animal, in quarter turns
    speeds,      \* animal.speed of each animal, in thousandths
    food_positions, \* food.position of each food
    ai,          \* step: the animal the loop under way stands at
    fi,          \* process_collisions: the food the inner loop stands at
    steplog,     \* what the call of step under way has done, in order
    entry        \* satiations and positions as they were when step was called

gavars == <<call, pc, population, chance, coeff, slot, parent_a, parent_b,
            flips, child, crossed, gene, sign, offspring, selected, draws>>

\* No statistics: a summary of no individual.
NoStatistics == [min_fitness |-> 0, max_fitness |-> 0, sum_fitness |-> 0, count |-> 0]

histvars == <<stats, train_age, train_steps, since_evolve, fresh>>

worldvars == <<positions, rotations, speeds, food_positions, ai, fi, steplog, entry>>

simvars == <<animals, foods, age, op, ret, in_train, generation, histvars,
             worldvars>>

vars == <<gavars, simvars>>

\* --------------------------------------------------- the random source

\* Rng::gen_bool(p): a raw draw v is turned into v/BoolRange < p/ChanceDen.
\* p = 0 never yields true, p = 1 always does.
GenBool(p, v) == v * ChanceDen < p * BoolRange

\* The probability 0.5 of the coin flips and of the sign draw.
Half == ChanceDen \div 2

RawBools == 0 .. (BoolRange - 1)
RawFloats == 0 .. (FloatRange - 1)
RawSelects == 0 .. (SelectRange - 1)

RECURSIVE Cumulative(_, _)
\* Sum of the first i weights.
Cumulative(w, i) == IF i = 0 THEN 0 ELSE Cumulative(w, i - 1) + w[i]

\* SliceRandom::choose_weighted: NoItem on an empty slice, InvalidWeight on a
\* negative weight, AllWeightsZero when the weights sum to zero; otherwise the
\* sampled weight total*s/SelectRange picks the first item whose cumulative
\* weight exceeds it (the partition point of the cumulative weights).
ChooseWeighted(w, s) ==
    LET n == Len(w)
        total == Cumulative(w, n)
    IN  IF n = 0 THEN [ok |-> FALSE, err |-> "NoItem", index |-> 0]
        ELSE IF \E i \in 1 .. n : w[i] < 0
             THEN [ok |-> FALSE, err |-> "InvalidWeight", index |-> 0]
        ELSE IF total = 0
             THEN [ok |-> FALSE, err |-> "AllWeightsZero", index |-> 0]
        ELSE [ok |-> TRUE, err |-> "",
              index |-> 1 + Cardinality({i \in 1 .. (n - 1) :
                            Cumulative(w, i) * SelectRange <= total * s})]

\* --------------------------------------------- libs/genetic-algorithm

\* Weights shifted by one: every individual gets a positive weight.
WeightsShifted(pop) == [i \in 1 .. Len(pop) |-> pop[i].fitness + 1]

\* The weight closure of select: |individual| individual.fitness().
Weights(pop) == [i \in 1 .. Len(pop) |-> pop[i].fitness]

\* Selection that falls back to a uniform choice when the weights are unusable.
SelectWithFallback(pop, s) ==
    LET r == ChooseWeighted([i \in 1 .. Len(pop) |-> pop[i].fitness], s)
    IN  IF r.ok \/ Len(pop) = 0 THEN r
        ELSE [ok |-> TRUE, err |-> "", index |-> 1 + (s % Len(pop))]

\* RouletteWheelSelection::select up to its expect: the outcome of
\* choose_weighted over the population, weighted by fitness.
Select(pop, s) == ChooseWeighted(Weights(pop), s)

\* The parents swapped: parent B's gene on heads.
CrossGeneSwapped(a, b, heads) == IF heads THEN b ELSE a

\* The closure of crossover's map: if rng.gen_bool(0.5) { a } else { b }.
CrossGene(a, b, heads) == IF heads THEN a ELSE b

\* let sign = if rng.gen_bool(0.5) { -1.0 } else { 1.0 }.
SignOf(negative) == IF negative THEN -1 ELSE 1

\* The perturbation without its coefficient.
MutGeneNoCoeff(g, sgn, c, u) == g + sgn * u

\* *gene += sign * self.coeff * rng.gen::<f32>(), in gene units.
MutGene(g, sgn, c, u) == g + sgn * c * u

\* The wrong field of the mutation: the coefficient used as the probability.
MutationChanceFromCoeff == coeff

\* The probability handed to gen_bool in mutate: self.chance as f64.
MutationChance == chance

\* A loop that stops one position early.
LoopPcShort(k, len, body, exit) == IF k < len THEN body ELSE exit

\* Where a loop over the positions 1..len stands before position k.
LoopPc(k, len, body, exit) == IF k <= len THEN body ELSE exit

\* An evolve that hands the crossed child to I::create without mutating it.
AfterCrossoverNoMutate == IF call = "evolve" THEN "create" ELSE "done"

\* Where crossover returns to: into evolve (mutate is called next) or to the
\* caller of a lone crossover.
AfterCrossover == IF call = "evolve" THEN "mutate" ELSE "done"

\* Where mutate returns to: into evolve (I::create is next) or to the caller.
AfterMutate == IF call = "evolve" THEN "create" ELSE "done"

\* Where select returns to when selecting parent A / parent B.
AfterSelectA == "select_b"
AfterSelectB == "crossover"

\* Parents taken from the offspring built so far, once there is one.
ParentPoolBeingBuilt ==
    IF offspring = <<>> THEN population
    ELSE [i \in 1 .. Len(offspring) |-> [fitness |-> 1, chromosome |-> offspring[i]]]

\* The slice both parents are selected from: evolve's argument `population`.
ParentPool == population

\* An emptiness test that never finds a population empty.
IsEmptyNever(pop) == FALSE

\* population.is_empty()
IsEmpty(pop) == Len(pop) = 0

\* GeneticAlgorithm::evolve, entry: assert!(!population.is_empty()), then the
\* map over 0..population.len() starts.
EvolveBegin ==
    /\ pc = "evolve"
    /\ pc' = IF IsEmpty(population) THEN "panic"
             ELSE LoopPc(1, Len(population), "select_a", "done")
    /\ UNCHANGED <<call, population, chance, coeff, flips, slot, parent_a, parent_b,
                   child, crossed, gene, sign, offspring, selected, draws>>
    /\ UNCHANGED simvars

\* let parent_a = self.selection_method.select(rng, population).chromosome();
SelectParentA ==
    /\ pc = "select_a"
    /\ \E s \in RawSelects :
          LET r == Select(ParentPool, s)
          IN  /\ draws' = Append(draws, "select_a")
              /\ IF r.ok
                 THEN /\ parent_a' = ParentPool[r.index].chromosome
                      /\ pc' = AfterSelectA
                 ELSE /\ pc' = "panic"
                      /\ UNCHANGED parent_a
    /\ UNCHANGED <<call, population, chance, coeff, flips, slot, parent_b, child,
                   crossed, gene, sign, offspring, selected>>
    /\ UNCHANGED simvars

\* let parent_b = self.selection_method.select(rng, population).chromosome();
SelectParentB ==
    /\ pc = "select_b"
    /\ \E s \in RawSelects :
          LET r == Select(ParentPool, s)
          IN  /\ draws' = Append(draws, "select_b")
              /\ IF r.ok
                 THEN /\ parent_b' = ParentPool[r.index].chromosome
                      /\ pc' = AfterSelectB
                 ELSE /\ pc' = "panic"
                      /\ UNCHANGED parent_b
    /\ UNCHANGED <<call, population, chance, coeff, flips, slot, parent_a, child,
                   crossed, gene, sign, offspring, selected>>
    /\ UNCHANGED simvars

\* A comparison of lengths that lets any two parents pass.
LengthsDifferIgnored(a, b) == FALSE

\* parent_a.len() != parent_b.len(), the failure of the assert_eq.
LengthsDiffer(a, b) == Len(a) # Len(b)

\* Elements of parent_a.iter().zip(parent_b.iter()): the zip ends with the
\* shorter of the two.
ZipLen(a, b) == IF Len(a) < Len(b) THEN Len(a) ELSE Len(b)

\* UniformCrossover::crossover, entry: assert_eq!(parent_a.len(),
\* parent_b.len()), then the zip of the two parents starts.
CrossoverBegin ==
    /\ pc = "crossover"
    /\ child' = <<>>
    /\ flips' = <<>>
    /\ pc' = IF LengthsDiffer(parent_a, parent_b) THEN "panic"
             ELSE LoopPc(1, ZipLen(parent_a, parent_b), "coin", AfterCrossover)
    /\ UNCHANGED <<call, population, chance, coeff, slot, parent_a, parent_b,
                   crossed, gene, sign, offspring, selected, draws>>
    /\ UNCHANGED simvars

\* One element of the zip: a coin flip picks the gene of parent A or B, and the
\* gene is collected into the child.
CrossoverFlip ==
    /\ pc = "coin"
    /\ \E v \in RawBools :
          LET k == Len(child) + 1
              heads == GenBool(Half, v)
          IN  /\ flips' = Append(flips, heads)
              /\ child' = Append(child, CrossGene(parent_a[k], parent_b[k], heads))
              /\ pc' = LoopPc(k + 1, ZipLen(parent_a, parent_b), "coin", AfterCrossover)
    /\ draws' = Append(draws, "coin")
    /\ UNCHANGED <<call, population, chance, coeff, slot, parent_a, parent_b,
                   crossed, gene, sign, offspring, selected>>
    /\ UNCHANGED simvars

\* GaussianMutation::mutate, entry: the loop over child.iter_mut() starts.
MutateBegin ==
    /\ pc = "mutate"
    /\ crossed' = child
    /\ gene' = 1
    /\ pc' = LoopPc(1, Len(child), "sign", AfterMutate)
    /\ UNCHANGED <<call, population, chance, coeff, flips, slot, parent_a, parent_b,
                   child, sign, offspring, selected, draws>>
    /\ UNCHANGED simvars

\* let sign = if rng.gen_bool(0.5) { -1.0 } else { 1.0 };
MutateSign ==
    /\ pc = "sign"
    /\ \E v \in RawBools : sign' = SignOf(GenBool(Half, v))
    /\ draws' = Append(draws, "sign")
    /\ pc' = "chance"
    /\ UNCHANGED <<call, population, chance, coeff, flips, slot, parent_a, parent_b,
                   child, crossed, gene, offspring, selected>>
    /\ UNCHANGED simvars

\* if rng.gen_bool(self.chance as f64): on a miss the loop moves to the next
\* gene.
MutateChance ==
    /\ pc = "chance"
    /\ \E v \in RawBools :
          IF GenBool(MutationChance, v)
          THEN /\ draws' = Append(draws, "chance_hit")
               /\ pc' = "magnitude"
               /\ UNCHANGED <<gene, sign>>
          ELSE /\ draws' = Append(draws, "chance_miss")
               /\ gene' = gene + 1
               /\ sign' = 0
               /\ pc' = LoopPc(gene + 1, Len(child), "sign", AfterMutate)
    /\ UNCHANGED <<call, population, chance, coeff, flips, slot, parent_a, parent_b,
                   child, crossed, offspring, selected>>
    /\ UNCHANGED simvars

\* *gene += sign * self.coeff * rng.gen::<f32>(), then the next gene.
MutateMagnitude ==
    /\ pc = "magnitude"
    /\ \E u \in RawFloats :
          child' = [child EXCEPT ![gene] = MutGene(@, sign, coeff, u)]
    /\ draws' = Append(draws, "magnitude")
    /\ gene' = gene + 1
    /\ sign' = 0
    /\ pc' = LoopPc(gene + 1, Len(child), "sign", AfterMutate)
    /\ UNCHANGED <<call, population, chance, coeff, flips, slot, parent_a, parent_b,
                   crossed, offspring, selected>>
    /\ UNCHANGED simvars

\* I::create(child): the closure of evolve's map returns and the child is
\* collected; the closure's locals are gone.
Create ==
    /\ pc = "create"
    /\ offspring' = Append(offspring, child)
    /\ slot' = slot + 1
    /\ parent_a' = <<>>
    /\ parent_b' = <<>>
    /\ flips' = <<>>
    /\ child' = <<>>
    /\ crossed' = <<>>
    /\ gene' = 0
    /\ pc' = LoopPc(slot + 2, Len(population), "select_a", "done")
    /\ UNCHANGED <<call, population, chance, coeff, sign, selected, draws>>
    /\ UNCHANGED simvars

\* A lone RouletteWheelSelection::select: choose_weighted, then expect.
SelectCall ==
    /\ pc = "select"
    /\ \E s \in RawSelects :
          LET r == Select(population, s)
          IN  IF r.ok
              THEN selected' = r.index /\ pc' = "done"
              ELSE selected' = 0 /\ pc' = "panic"
    /\ draws' = Append(draws, "select")
    /\ UNCHANGED <<call, population, chance, coeff, flips, slot, parent_a, parent_b,
                   child, crossed, gene, sign, offspring>>
    /\ UNCHANGED simvars

\* ------------------------------------------------------------- inputs

SeqsUpTo(S, n) == UNION {[1 .. k -> S] : k \in 0 .. n}

\* Chromosomes of 1..MaxLen genes.
Chromosomes == SeqsUpTo(GeneValues, MaxLen) \ {<<>>}

\* Populations of evolve: any slice of up to MaxPop individuals.
Populations == SeqsUpTo([fitness : FitnessValues, chromosome : Chromosomes], MaxPop)

\* A GaussianMutation: chance in [0, 1] (GaussianMutation::new asserts it),
\* here 0, 0.5 or 1, and a coefficient, here 0 or 0.5 (in tenths).
Chances == {0, Half, ChanceDen}
Coeffs == {0, 5}

\* Positions, headings and speeds are not followed.
Untracked ==
    /\ positions = <<>>
    /\ rotations = <<>>
    /\ speeds = <<>>
    /\ food_positions = <<>>
    /\ ai = 0
    /\ fi = 0
    /\ steplog = <<>>
    /\ entry = <<>>

\* No Simulation exists: the library is called on its own.
NoSimulation ==
    /\ animals = <<>>
    /\ foods = 0
    /\ age = 0
    /\ op = "none"
    /\ ret = "none"
    /\ in_train = FALSE
    /\ generation = 0
    /\ stats = NoStatistics
    /\ train_age = -1
    /\ train_steps = 0
    /\ since_evolve = 0
    /\ fresh = <<>>
    /\ Untracked

InitLocals ==
    /\ slot = 0
    /\ parent_a = <<>>
    /\ parent_b = <<>>
    /\ flips = <<>>
    /\ child = <<>>
    /\ crossed = <<>>
    /\ gene = 0
    /\ sign = 0
    /\ offspring = <<>>
    /\ selected = 0
    /\ draws = <<>>
    /\ NoSimulation

\* A call of GeneticAlgorithm::evolve on any population.
InitEvolve ==
    /\ call = "evolve"
    /\ pc = "evolve"
    /\ population \in Populations
    /\ chance \in Chances
    /\ coeff \in Coeffs
    /\ InitLocals

NextEvolve ==
    \/ EvolveBegin
    \/ SelectParentA
    \/ SelectParentB
    \/ CrossoverBegin
    \/ CrossoverFlip
    \/ MutateBegin
    \/ MutateSign
    \/ MutateChance
    \/ MutateMagnitude
    \/ Create

SpecEvolve == InitEvolve /\ [][NextEvolve]_vars

\* A lone call of RouletteWheelSelection::select on individuals that only
\* carry a fitness.
SelectPopulations ==
    SeqsUpTo([fitness : -1 .. MaxFitness, chromosome : {<<>>}], MaxSelectPop)

InitSelect ==
    /\ call = "select"
    /\ pc = "select"
    /\ population \in SelectPopulations
    /\ chance = 0
    /\ coeff = 0
    /\ InitLocals

NextSelect == SelectCall

SpecSelect == InitSelect /\ [][NextSelect]_vars

\* A lone call of UniformCrossover::crossover on any two chromosomes.
InitCrossover ==
    /\ call = "crossover"
    /\ pc = "crossover"
    /\ population = <<>>
    /\ chance = 0
    /\ coeff = 0
    /\ slot = 0
    /\ parent_a \in SeqsUpTo(GeneValues, MaxLen)
    /\ parent_b \in SeqsUpTo(GeneValues, MaxLen)
    /\ flips = <<>>
    /\ child = <<>>
    /\ crossed = <<>>
    /\ gene = 0
    /\ sign = 0
    /\ offspring = <<>>
    /\ selected = 0
    /\ draws = <<>>
    /\ NoSimulation

NextCrossover ==
    \/ CrossoverBegin
    \/ CrossoverFlip

SpecCrossover == InitCrossover /\ [][NextCrossover]_vars

\* The calls of the library that can fail on their arguments: evolve, select
\* and crossover, each on any input.
InitEngine == InitEvolve \/ InitSelect \/ InitCrossover

NextEngine ==
    \/ NextEvolve
    \/ NextSelect

SpecEngine == InitEngine /\ [][NextEngine]_vars

\* A lone call of GaussianMutation::mutate on any chromosome.
InitMutate ==
    /\ call = "mutate"
    /\ pc = "mutate"
    /\ population = <<>>
    /\ chance \in Chances
    /\ coeff \in Coeffs
    /\ slot = 0
    /\ parent_a = <<>>
    /\ parent_b = <<>>
    /\ flips = <<>>
    /\ child \in SeqsUpTo(GeneValues, MaxLen)
    /\ crossed = <<>>
    /\ gene = 0
    /\ sign = 0
    /\ offspring = <<>>
    /\ selected = 0
    /\ draws = <<>>
    /\ NoSimulation

NextMutate ==
    \/ MutateBegin
    \/ MutateSign
    \/ MutateChance
    \/ MutateMagnitude

SpecMutate == InitMutate /\ [][NextMutate]_vars

\* ---------------------------------------------------- libs/simulation

\* The brain weights of a random animal (Animal::random(rng).as_chromosome()).
BrainChromosomes == [1 .. BrainGenes -> GeneValues]

\* Animals that World::random creates: as many as choose_best builds, the
\* population size being constant.
WorldAnimals == PopulationSize

\* Animal::new / Animal::random: a new animal has eaten nothing.
NewAnimal(chromosome) == [satiation |-> 0, chromosome |-> chromosome]

\* Simulation::random: World::random and the genetic algorithm with
\* GaussianMutation::new(0.01, 0.3); age: 0.
InitSim ==
    /\ animals \in [1 .. WorldAnimals -> {NewAnimal(c) : c \in BrainChromosomes}]
    /\ foods = NumFoods
    /\ age = 0
    /\ op = "random"
    /\ ret = "none"
    /\ in_train = FALSE
    /\ generation = 0
    /\ stats = NoStatistics
    /\ train_age = -1
    /\ train_steps = 0
    /\ since_evolve = 0
    /\ fresh = <<>>
    /\ Untracked
    /\ call = "none"
    /\ pc = "idle"
    /\ population = <<>>
    /\ chance = SIM_MUTATION_CHANCE
    /\ coeff = SIM_MUTATION_COEFF
    /\ slot = 0
    /\ parent_a = <<>>
    /\ parent_b = <<>>
    /\ flips = <<>>
    /\ child = <<>>
    /\ crossed = <<>>
    /\ gene = 0
    /\ sign = 0
    /\ offspring = <<>>
    /\ selected = 0
    /\ draws = <<>>

\* The (animal, food) pairs of process_collisions.
Pairs == (1 .. Len(animals)) \X (1 .. foods)

\* process_collisions, given the pairs found within distance 0.01: the animal
\* of each such pair gains one satiation (its food is moved to a random
\* position).  Positions are not part of the state: which pairs collide is any
\* subset of the pairs.
AfterCollisions(hits) ==
    [i \in 1 .. Len(animals) |->
        [animals[i] EXCEPT !.satiation =
            @ + Cardinality({f \in 1 .. foods : <<i, f>> \in hits})]]

\* The boundary test of step, made too early.
BoundaryReachedEarly(a) == a >= GENERATION_LENGTH

\* if self.age > GENERATION_LENGTH
BoundaryReached(a) == a > GENERATION_LENGTH

\* Individuals whose fitness is one more than the satiation.
CurrentPopulationSmoothed(as) ==
    [i \in 1 .. Len(as) |->
        [fitness |-> as[i].satiation + 1, chromosome |-> as[i].chromosome]]

\* AnimalIndividual::from_animal over the animals: fitness is the satiation,
\* the chromosome that of the brain.
CurrentPopulation(as) ==
    [i \in 1 .. Len(as) |->
        [fitness |-> as[i].satiation, chromosome |-> as[i].chromosome]]

\* One call of step, from `caller` ("step": the public call, "train": an
\* iteration of train's loop): collisions, brains and movement (which write
\* positions, headings and speeds only), then the age; past the boundary
\* Simulation::evolve starts: age back to 0, the animals snapshot handed to
\* GeneticAlgorithm::evolve.
StepBody(caller) ==
    /\ pc = "idle"
    /\ op' = caller
    /\ in_train' = (caller = "train")
    /\ train_age' = IF caller # "train" THEN -1
                     ELSE IF in_train THEN train_age ELSE age
    /\ train_steps' = IF caller # "train" THEN 0
                       ELSE IF in_train THEN train_steps + 1 ELSE 1
    /\ since_evolve' = IF BoundaryReached(age + 1) THEN 0 ELSE since_evolve + 1
    /\ fresh' = <<>>
    /\ \E hits \in SUBSET Pairs :
          LET fed == AfterCollisions(hits)
          IN  /\ \A i \in 1 .. Len(fed) : fed[i].satiation <= MaxSatiation
              /\ animals' = fed
              /\ IF BoundaryReached(age + 1)
                 THEN /\ generation < MaxGenerations
                      /\ age' = 0
                      /\ ret' = "pending"
                      /\ call' = "evolve"
                      /\ pc' = "evolve"
                      /\ population' = CurrentPopulation(fed)
                 ELSE /\ age' = age + 1
                      /\ ret' = "None"
                      /\ UNCHANGED <<call, pc, population>>
    /\ UNCHANGED <<chance, coeff, slot, parent_a, parent_b, flips, child,
                   crossed, gene, sign, offspring, selected, draws>>
    /\ UNCHANGED <<foods, generation, stats>>
    /\ UNCHANGED worldvars

\* Simulation::step called by the user.
Step ==
    /\ ~in_train
    /\ StepBody("step")

\* Simulation::train: its loop calls step until a step returns statistics.
Train ==
    /\ pc = "idle"
    /\ StepBody("train")

\* Materialised animals, one short.
IntoAnimalsDropLast(chromosomes) ==
    [i \in 1 .. (Len(chromosomes) - 1) |-> NewAnimal(chromosomes[i])]

\* evolved_population.into_iter().map(into_animal).collect()
IntoAnimals(chromosomes) ==
    [i \in 1 .. Len(chromosomes) |-> NewAnimal(chromosomes[i])]

RECURSIVE SumFitness(_, _)
\* Sum of the fitness of the first n individuals.
SumFitness(pop, n) == IF n = 0 THEN 0 ELSE SumFitness(pop, n - 1) + pop[n].fitness

\* The minimum, maximum and average fitness of a population; the average as
\* the sum over the count.
Statistics(pop) ==
    LET fs == {pop[i].fitness : i \in 1 .. Len(pop)}
    IN  [min_fitness |-> CHOOSE f \in fs : \A g \in fs : f <= g,
         max_fitness |-> CHOOSE f \in fs : \A g \in fs : f >= g,
         sum_fitness |-> SumFitness(pop, Len(pop)),
         count |-> Len(pop)]

\* What GeneticAlgorithm::evolve hands back beside the new individuals: its
\* result is the collected Vec<I> alone, no statistics are computed.
EvolveStatistics(pop) == NoStatistics

\* Simulation::evolve after GeneticAlgorithm::evolve returned: the animals
\* are replaced by the evolved ones, every food is moved, the statistics go
\* back through step (and end train's loop).
EvolveReturned ==
    /\ pc = "done"
    /\ op \in {"step", "train"}
    /\ animals' = IntoAnimals(offspring)
    /\ stats' = EvolveStatistics(population)
    /\ ret' = "Some"
    /\ in_train' = FALSE
    /\ generation' = generation + 1
    /\ call' = "none"
    /\ pc' = "idle"
    /\ population' = <<>>
    /\ offspring' = <<>>
    /\ slot' = 0
    /\ draws' = <<>>
    /\ UNCHANGED <<chance, coeff, parent_a, parent_b, flips, child, crossed,
                   gene, sign, selected>>
    /\ UNCHANGED <<foods, age, op, train_age, train_steps, since_evolve, fresh>>

\* Simulation::evolve returning, positions not followed.
EvolveReturn ==
    /\ EvolveReturned
    /\ UNCHANGED worldvars

RECURSIVE TopChromosomeLast(_, _, _, _)
\* The loop with >= for >: the last animal of the top satiation wins, and a
\* hungry animal displaces the random one.
TopChromosomeLast(as, i, top_chromosome, top_satiation) ==
    IF i > Len(as) THEN top_chromosome
    ELSE IF as[i].satiation >= top_satiation
         THEN TopChromosomeLast(as, i + 1, as[i].chromosome, as[i].satiation)
         ELSE TopChromosomeLast(as, i + 1, top_chromosome, top_satiation)

RECURSIVE TopChromosome(_, _, _, _)
\* The loop of choose_best from animal i on: the chromosome of the first
\* animal whose satiation exceeds every earlier one's (and 0).
TopChromosome(as, i, top_chromosome, top_satiation) ==
    IF i > Len(as) THEN top_chromosome
    ELSE IF as[i].satiation > top_satiation
         THEN TopChromosome(as, i + 1, as[i].chromosome, as[i].satiation)
         ELSE TopChromosome(as, i + 1, top_chromosome, top_satiation)

\* A range one longer than that of choose_best.
ChooseBestRangeLong == 1 .. (PopulationSize + 1)

\* The range (0..40) of choose_best.
ChooseBestRange == 1 .. PopulationSize

\* choose_best starting the generation anew.
ChooseBestAgeReset(a) == 0

\* self.age across choose_best, which has no assignment to it.
ChooseBestAge(a) == a

\* Simulation::choose_best: assert more than one animal, then every new
\* animal gets the top chromosome (that of a random animal when nobody has
\* eaten), and every food is moved.
ChooseBest ==
    /\ pc = "idle"
    /\ ~in_train
    /\ op' = "choose_best"
    /\ ret' = "none"
    /\ IF Len(animals) > 1
       THEN /\ \E random \in BrainChromosomes :
                 /\ fresh' = random
                 /\ animals' = [i \in ChooseBestRange |->
                                   NewAnimal(TopChromosome(animals, 1, random, 0))]
            /\ pc' = pc
       ELSE /\ pc' = "panic"
            /\ fresh' = <<>>
            /\ animals' = animals
    /\ UNCHANGED <<call, population, chance, coeff, slot, parent_a, parent_b,
                   flips, child, crossed, gene, sign, offspring, selected, draws>>
    /\ age' = ChooseBestAge(age)
    /\ UNCHANGED <<foods, in_train, generation, stats, train_age,
                   train_steps, since_evolve>>
    /\ UNCHANGED worldvars

NextSim ==
    \/ Step
    \/ Train
    \/ ChooseBest
    \/ EvolveBegin
    \/ SelectParentA
    \/ SelectParentB
    \/ CrossoverBegin
    \/ CrossoverFlip
    \/ MutateBegin
    \/ MutateSign
    \/ MutateChance
    \/ MutateMagnitude
    \/ Create
    \/ EvolveReturn

SpecSim == InitSim /\ [][NextSim]_vars

\* Worlds choose_best may be handed: World::random is not in the source, so
\* any number of animals up to MaxWorldAnimals, each with any satiation.
Worlds ==
    SeqsUpTo([satiation : 0 .. MaxSatiation, chromosome : BrainChromosomes],
             MaxWorldAnimals)

\* A Simulation on any such world, choose_best about to be called.
InitChooseBest ==
    /\ animals \in Worlds
    /\ foods = NumFoods
    /\ age \in 0 .. GENERATION_LENGTH
    /\ op = "random"
    /\ ret = "none"
    /\ in_train = FALSE
    /\ generation = 0
    /\ stats = NoStatistics
    /\ train_age = -1
    /\ train_steps = 0
    /\ since_evolve = age
    /\ fresh = <<>>
    /\ Untracked
    /\ call = "none"
    /\ pc = "idle"
    /\ population = <<>>
    /\ chance = SIM_MUTATION_CHANCE
    /\ coeff = SIM_MUTATION_COEFF
    /\ slot = 0
    /\ parent_a = <<>>
    /\ parent_b = <<>>
    /\ flips = <<>>
    /\ child = <<>>
    /\ crossed = <<>>
    /\ gene = 0
    /\ sign = 0
    /\ offspring = <<>>
    /\ selected = 0
    /\ draws = <<>>

NextChooseBest == ChooseBest

SpecChooseBest == InitChooseBest /\ [][NextChooseBest]_vars

\* The program is one thread that runs every call to completion: a call under
\* way takes its next step, and the caller goes on calling.
SpecSimFair == SpecSim /\ WF_vars(NextSim)

\* ---------------------------------------- libs/simulation, with positions

\* Lengths are in thousandths of the side of the world, angles in quarter
\* turns.  The constants of libs/simulation/src/lib.rs in these units:
\* SPEED_MIN 0.001, SPEED_MAX 0.005, SPEED_ACCEL 0.2, ROTATION_ACCEL
\* FRAC_PI_2, the collision distance 0.01 and the bounds 0.0 and 1.0 of wrap.
SPEED_MIN == 1
SPEED_MAX == 5
SPEED_ACCEL == 200
ROTATION_ACCEL == 1
COLLISION_DISTANCE == 10
WRAP_MIN == 0
WRAP_MAX == 1000

\* Turns in a full turn.
FullTurn == 4

\* The speed of a new animal (Animal::new).
InitialSpeed == 2

\* Places rng.gen() gives a food.
FoodSpots == {[x |-> 0, y |-> 13], [x |-> 990, y |-> 999]}

\* Places rng.gen() gives a new animal.
AnimalSpots == {[x |-> 0, y |-> 3], [x |-> 995, y |-> 995]}

\* Headings rng.gen() gives a new animal.
RandomRotations == {0}

\* The step counter of the Simulation the run starts from: one call short of
\* the call that fires the boundary.
WorldStartAge == GENERATION_LENGTH - 1

\* Chromosome of the i-th animal of that Simulation.
WorldChromosome(i) == [g \in 1 .. BrainGenes |-> i % 2]

\* Outputs of the brain (response[0], response[1]) for some vision.
Responses == {[speed |-> -300, rotation |-> -2], [speed |-> 300, rotation |-> 2]}

\* f32::clamp
Clamp(v, lo, hi) == IF v < lo THEN lo ELSE IF v > hi THEN hi ELSE v

RECURSIVE WrapUp(_, _, _)
\* while val < min { val += width }
WrapUp(val, min, width) == IF val < min THEN WrapUp(val + width, min, width) ELSE val

RECURSIVE WrapDown(_, _, _)
\* while val > max { val -= width }
WrapDown(val, max, width) == IF val > max THEN WrapDown(val - width, max, width) ELSE val

\* na::wrap(val, min, max): a value below min is raised by the width until it
\* is not, a value above max is lowered by the width until it is not, a
\* value from min to max, both included, is returned as it is.
Wrap(val, min, max) ==
    IF val < min THEN WrapUp(val + (max - min), min, max - min)
    ELSE IF val > max THEN WrapDown(val - (max - min), max, max - min)
    ELSE val

\* rotation * Vector2::new(0.0, speed): the vector (0, speed) turned by the
\* heading.
Displacement(rotation, speed) ==
    IF rotation = 0 THEN [x |-> 0, y |-> speed]
    ELSE IF rotation = 1 THEN [x |-> 0 - speed, y |-> 0]
    ELSE IF rotation = 2 THEN [x |-> 0, y |-> 0 - speed]
    ELSE [x |-> speed, y |-> 0]

\* Rotation2::new(angle + rotation): the heading turned, as an angle of one
\* full turn.
Turned(rotation, by) == (rotation + by + FullTurn) % FullTurn

\* The collision test with < for <=.
WithinReachStrict(a, f) ==
    (a.x - f.x) * (a.x - f.x) + (a.y - f.y) * (a.y - f.y)
        < COLLISION_DISTANCE * COLLISION_DISTANCE

\* na::distance(&animal.position, &food.position) <= 0.01
WithinReach(a, f) ==
    (a.x - f.x) * (a.x - f.x) + (a.y - f.y) * (a.y - f.y)
        <= COLLISION_DISTANCE * COLLISION_DISTANCE

\* The phases of step after process_collisions, process_brains skipped.
AfterInteractionSkipsBrains == "movement"

\* self.process_collisions(rng); self.process_brains();
AfterInteraction == "brains"

\* self.process_brains(); self.process_movement();
AfterDecision == "movement"

\* self.process_movement(); self.age += 1;
AfterMovement == "age"

\* A Simulation with positions, WorldStartAge calls of step after
\* Simulation::random, in which no animal has eaten yet: every animal and
\* every food is at one of the places considered.
InitWorld ==
    /\ animals = [i \in 1 .. WorldAnimals |-> NewAnimal(WorldChromosome(i))]
    /\ positions \in [1 .. WorldAnimals -> AnimalSpots]
    /\ rotations \in [1 .. WorldAnimals -> RandomRotations]
    /\ speeds = [i \in 1 .. WorldAnimals |-> InitialSpeed]
    /\ food_positions \in [1 .. NumFoods -> FoodSpots]
    /\ ai = 0
    /\ fi = 0
    /\ steplog = <<>>
    /\ entry = <<>>
    /\ foods = NumFoods
    /\ age = WorldStartAge
    /\ op = "random"
    /\ ret = "none"
    /\ in_train = FALSE
    /\ generation = 0
    /\ stats = NoStatistics
    /\ train_age = -1
    /\ train_steps = 0
    /\ since_evolve = WorldStartAge
    /\ fresh = <<>>
    /\ call = "none"
    /\ pc = "idle"
    /\ population = <<>>
    /\ chance = SIM_MUTATION_CHANCE
    /\ coeff = SIM_MUTATION_COEFF
    /\ slot = 0
    /\ parent_a = <<>>
    /\ parent_b = <<>>
    /\ flips = <<>>
    /\ child = <<>>
    /\ crossed = <<>>
    /\ gene = 0
    /\ sign = 0
    /\ offspring = <<>>
    /\ selected = 0
    /\ draws = <<>>

\* What the genetic algorithm and the history of calls hold.
gaAndHistory == <<call, population, chance, coeff, slot, parent_a, parent_b, flips,
                  child, crossed, gene, sign, offspring, selected, draws,
                  foods, in_train, generation, stats, train_age, train_steps,
                  fresh>>

\* Simulation::step is called: process_collisions starts on the first
\* animal and the first food.
StepEnter ==
    /\ pc = "idle"
    /\ generation < MaxGenerations
    /\ op' = "step"
    /\ ret' = "pending"
    /\ pc' = "collisions"
    /\ ai' = 1
    /\ fi' = 1
    /\ steplog' = <<>>
    /\ entry' = [satiations |-> [i \in 1 .. Len(animals) |-> animals[i].satiation],
                 positions |-> positions,
                 food_positions |-> food_positions,
                 age |-> age]
    /\ UNCHANGED <<animals, age, since_evolve, positions, rotations, speeds,
                   food_positions>>
    /\ UNCHANGED gaAndHistory

\* An entry of steplog.
Did(kind, animal, food) == [kind |-> kind, animal |-> animal, food |-> food]

\* process_collisions, one pair of its two loops (animals outer, foods
\* inner): within reach the animal's satiation rises by one and the food gets
\* a position from the random source.
CollidePair ==
    /\ pc = "collisions"
    /\ IF WithinReach(positions[ai], food_positions[fi])
       THEN /\ animals' = [animals EXCEPT ![ai].satiation = @ + 1]
            /\ \E spot \in FoodSpots :
                  food_positions' = [food_positions EXCEPT ![fi] = spot]
            /\ steplog' = steplog \o <<Did("interaction", ai, fi), Did("respawn", ai, fi)>>
       ELSE /\ UNCHANGED <<animals, food_positions>>
            /\ steplog' = Append(steplog, Did("interaction", ai, fi))
    /\ IF fi < Len(food_positions)
       THEN /\ fi' = fi + 1
            /\ UNCHANGED <<ai, pc>>
       ELSE IF ai < Len(animals)
            THEN /\ fi' = 1
                 /\ ai' = ai + 1
                 /\ UNCHANGED pc
            ELSE /\ fi' = 0
                 /\ ai' = 1
                 /\ pc' = AfterInteraction
    /\ UNCHANGED <<age, op, ret, since_evolve, positions, rotations, speeds, entry>>
    /\ UNCHANGED gaAndHistory

\* process_brains, one animal: the response of its brain to what its eye
\* sees, clamped, changes its speed (kept from SPEED_MIN to SPEED_MAX) and
\* its heading.
ProcessBrain ==
    /\ pc = "brains"
    /\ \E response \in Responses :
          LET speed == Clamp(response.speed, 0 - SPEED_ACCEL, SPEED_ACCEL)
              rotation == Clamp(response.rotation, 0 - ROTATION_ACCEL, ROTATION_ACCEL)
          IN  /\ speeds' = [speeds EXCEPT ![ai] = Clamp(@ + speed, SPEED_MIN, SPEED_MAX)]
              /\ rotations' = [rotations EXCEPT ![ai] = Turned(@, rotation)]
    /\ steplog' = Append(steplog, Did("decision", ai, 0))
    /\ IF ai < Len(animals)
       THEN /\ ai' = ai + 1
            /\ UNCHANGED pc
       ELSE /\ ai' = 1
            /\ pc' = AfterDecision
    /\ UNCHANGED <<animals, age, op, ret, since_evolve, positions, food_positions,
                   fi, entry>>
    /\ UNCHANGED gaAndHistory

\* process_movement, one animal: the position advances by the heading times
\* the speed, then each coordinate is wrapped.
MoveAnimal ==
    /\ pc = "movement"
    /\ LET by == Displacement(rotations[ai], speeds[ai])
       IN  positions' = [positions EXCEPT ![ai] =
                            [x |-> Wrap(@.x + by.x, WRAP_MIN, WRAP_MAX),
                             y |-> Wrap(@.y + by.y, WRAP_MIN, WRAP_MAX)]]
    /\ steplog' = Append(steplog, Did("movement", ai, 0))
    /\ IF ai < Len(animals)
       THEN /\ ai' = ai + 1
            /\ UNCHANGED pc
       ELSE /\ ai' = 0
            /\ pc' = AfterMovement
    /\ UNCHANGED <<animals, age, op, ret, since_evolve, rotations, speeds,
                   food_positions, fi, entry>>
    /\ UNCHANGED gaAndHistory

\* The end of step: self.age += 1, then the boundary test; past the boundary
\* Simulation::evolve starts (age back to 0, the animals handed to
\* GeneticAlgorithm::evolve), else step returns None.
AgeTick ==
    /\ pc = "age"
    /\ steplog' = <<>>
    /\ entry' = <<>>
    /\ IF BoundaryReached(age + 1)
       THEN /\ age' = 0
            /\ since_evolve' = 0
            /\ call' = "evolve"
            /\ pc' = "evolve"
            /\ population' = CurrentPopulation(animals)
            /\ UNCHANGED ret
       ELSE /\ age' = age + 1
            /\ since_evolve' = since_evolve + 1
            /\ ret' = "None"
            /\ pc' = "idle"
            /\ UNCHANGED <<call, population>>
    /\ UNCHANGED <<animals, op, positions, rotations, speeds, food_positions, ai, fi>>
    /\ UNCHANGED <<chance, coeff, slot, parent_a, parent_b, flips, child, crossed,
                   gene, sign, offspring, selected, draws>>
    /\ UNCHANGED <<foods, in_train, generation, stats, train_age, train_steps, fresh>>

\* Simulation::evolve returning: every evolved animal gets a position and a
\* heading from the random source (AnimalIndividual::into_animal), every food
\* a new position.
WorldEvolveReturn ==
    /\ EvolveReturned
    /\ positions' \in [1 .. Len(offspring) -> AnimalSpots]
    /\ rotations' \in [1 .. Len(offspring) -> RandomRotations]
    /\ speeds' = [i \in 1 .. Len(offspring) |-> InitialSpeed]
    /\ food_positions' \in [1 .. Len(food_positions) -> FoodSpots]
    /\ UNCHANGED <<ai, fi, steplog, entry>>

NextWorld ==
    \/ StepEnter
    \/ CollidePair
    \/ ProcessBrain
    \/ MoveAnimal
    \/ AgeTick
    \/ EvolveBegin
    \/ SelectParentA
    \/ SelectParentB
    \/ CrossoverBegin
    \/ CrossoverFlip
    \/ MutateBegin
    \/ MutateSign
    \/ MutateChance
    \/ MutateMagnitude
    \/ Create
    \/ WorldEvolveReturn

SpecWorld == InitWorld /\ [][NextWorld]_vars

\* ============================================================== claims

Fitnesses(pop) == {pop[i].fitness : i \in 1 .. Len(pop)}

\* Positions where two chromosomes of one length differ.
DiffCount(x, y) == Cardinality({i \in 1 .. Len(x) : x[i] # y[i]})

\* A call of step, by the user or by train's loop.
StepCall == Step \/ Train

\* A call of step with the counter below GENERATION_LENGTH returns no
\* statistics and raises the counter by one.
CountsUp ==
    [][(StepCall /\ age < GENERATION_LENGTH)
        => (ret' = "None" /\ age' = age + 1 /\ pc' = "idle")]_vars

\* The call of step with the counter at GENERATION_LENGTH (the call number
\* GENERATION_LENGTH + 1 since the counter was 0) fires the boundary: the
\* counter is reset and all the animals go to the engine.
BoundaryFires ==
    [][(StepCall /\ age = GENERATION_LENGTH)
        => (pc' = "evolve" /\ age' = 0 /\ Len(population') = Len(animals))]_vars

\* When that call returns it returns statistics, the counter is 0 and there
\* are as many animals as before.
ReturnsStatistics ==
    [][(op \in {"step", "train"} /\ pc # "idle" /\ pc' = "idle")
        => (ret' = "Some" /\ age' = 0 /\ Len(animals') = Len(population)
            /\ Len(animals) = Len(population))]_vars

\* C1 as stated: from counter 0 the next GENERATION_LENGTH calls of step
\* return no statistics and each raises the counter by 1; the call after them
\* returns statistics (it never fails), leaving the counter at 0 and the
\* number of animals as it was.
C1_AsStated ==
    /\ CountsUp
    /\ BoundaryFires
    /\ ReturnsStatistics
    /\ [](op \in {"step", "train"} => pc # "panic")

\* C1, amended: the same, the call after them returning statistics provided
\* some animal has positive satiation when it runs; it fails only when every
\* animal's satiation is 0.
C1_BoundaryAfterGenerationLength ==
    /\ CountsUp
    /\ BoundaryFires
    /\ ReturnsStatistics
    /\ []((op \in {"step", "train"} /\ pc = "panic")
            => \A f \in Fitnesses(population) : f = 0)

\* C1 happens: the boundary call of a user's step has returned statistics.
C1_Witness ==
    /\ op = "step"
    /\ ret = "Some"
    /\ pc = "idle"
    /\ age = 0
    /\ generation = 1
    /\ Len(animals) = WorldAnimals

C11_StatisticsOfInputPopulation ==
    [][(op \in {"step", "train"} /\ pc = "done" /\ pc' = "idle")
        => /\ population = CurrentPopulation(animals)
           /\ stats' = Statistics(population)]_vars

\* train returns only from a boundary, after GENERATION_LENGTH + 1 - a calls
\* of step when it was called at age a, with that boundary's statistics and
\* age 0.
TrainReturns ==
    [][(in_train /\ ~in_train')
        => /\ pc = "done"
           /\ 0 <= train_age /\ train_age <= GENERATION_LENGTH
           /\ train_steps = GENERATION_LENGTH + 1 - train_age
           /\ ret' = "Some"
           /\ age' = 0
           /\ generation' = generation + 1]_vars

\* C14: train, called at age a in a state in which the boundary's evolve
\* succeeds, terminates after exactly GENERATION_LENGTH + 1 - a calls of step,
\* returns the statistics of that boundary and leaves age at 0.
C14_TrainRunsToBoundary ==
    /\ TrainReturns
    /\ (in_train /\ generation < MaxGenerations) ~> (~in_train \/ pc = "panic")

\* C14 happens: a train called at age 1 has returned.
C14_Witness ==
    /\ op = "train"
    /\ ~in_train
    /\ ret = "Some"
    /\ train_age = 1
    /\ train_steps = GENERATION_LENGTH
    /\ age = 0

\* No animal has eaten.
AllHungry(as) == \A i \in 1 .. Len(as) : as[i].satiation = 0

\* C18: when the boundary is reached while every animal's satiation is 0,
\* the first parent selection fails, the failure ends step (and train), and
\* the animals are not replaced: nothing is evolved from such a population.
C18_HungryBoundaryFails ==
    /\ []((op \in {"step", "train"} /\ pc \notin {"idle"} /\ AllHungry(animals))
            => /\ pc \in {"evolve", "select_a", "panic"}
               /\ offspring = <<>>
               /\ population = CurrentPopulation(animals))
    /\ [][(op \in {"step", "train"} /\ pc = "select_a" /\ AllHungry(animals))
            => (pc' = "panic" /\ animals' = animals)]_vars
    /\ [][(pc = "panic") => (pc' = "panic" /\ animals' = animals)]_vars
    /\ [][(pc = "done" /\ pc' = "idle") => ~AllHungry(animals)]_vars

\* C18 happens: a train has ended in the failure of the first selection,
\* the hungry animals still in the world.
C18_Witness ==
    /\ op = "train"
    /\ pc = "panic"
    /\ draws = <<"select_a">>
    /\ AllHungry(animals)
    /\ Len(animals) = PopulationSize

\* C16: evolve and select called with an empty population fail at once and
\* return nothing; evolve fails before any draw on the random source.
C16_EmptyPopulationFails ==
    /\ []((call = "evolve" /\ population = <<>>)
            => /\ pc \in {"evolve", "panic"}
               /\ draws = <<>>
               /\ offspring = <<>>)
    /\ [][(call = "evolve" /\ pc = "evolve" /\ population = <<>>)
            => pc' = "panic"]_vars
    /\ []((call = "select" /\ population = <<>>)
            => /\ pc \in {"select", "panic"}
               /\ selected = 0)
    /\ [][(call = "select" /\ pc = "select" /\ population = <<>>)
            => pc' = "panic"]_vars

\* C16 happens: evolve has failed on the empty population.
C16_Witness ==
    /\ call = "evolve"
    /\ population = <<>>
    /\ pc = "panic"
    /\ draws = <<>>

\* The crossover of the call under way has passed its entry.
PastCrossoverEntry == pc \in {"coin", "mutate", "sign", "chance", "magnitude", "create"}

\* C17: crossover of two parents of different lengths fails before any coin
\* is flipped and returns no child; so evolve on a population of mixed
\* chromosome lengths fails as soon as two such parents are selected for one
\* offspring, and never builds a truncated child.
C17_LengthMismatchFails ==
    /\ [][(call \in {"evolve", "crossover"} /\ pc = "crossover"
            /\ Len(parent_a) # Len(parent_b))
            => /\ pc' = "panic"
               /\ child' = <<>>
               /\ flips' = <<>>
               /\ draws' = draws
               /\ offspring' = offspring]_vars
    /\ []((call \in {"evolve", "crossover"} /\ PastCrossoverEntry)
            => /\ Len(parent_a) = Len(parent_b)
               /\ Len(child) <= Len(parent_a))
    /\ []((call = "evolve" /\ pc = "create") => Len(child) = Len(parent_a))
    /\ []((call = "crossover" /\ pc = "done")
            => (Len(child) = Len(parent_a) /\ Len(child) = Len(parent_b)))

\* C17 happens: evolve has built one offspring and failed on the second,
\* whose parents differ in length.
C17_Witness ==
    /\ call = "evolve"
    /\ pc = "panic"
    /\ Len(offspring) = 1
    /\ parent_a # <<>>
    /\ parent_b # <<>>
    /\ Len(parent_a) # Len(parent_b)
    /\ child = <<>>

\* The largest satiation among the animals.
TopSatiation(as) ==
    CHOOSE t \in {as[i].satiation : i \in 1 .. Len(as)} :
        \A i \in 1 .. Len(as) : as[i].satiation <= t

\* The first animal, in collection order, of the largest satiation.
FirstOfTopSatiation(as) ==
    CHOOSE i \in 1 .. Len(as) :
        /\ as[i].satiation = TopSatiation(as)
        /\ \A j \in 1 .. (i - 1) : as[j].satiation < TopSatiation(as)

\* C20: choose_best on more than one animal gives every new animal one
\* chromosome: that of the first animal of the largest satiation when that
\* satiation is above 0, that of a new random animal when every satiation is
\* 0; on one animal or none the call fails.
C20_BestChromosome ==
    [][ChooseBest
        => IF Len(animals) > 1
           THEN /\ pc' = "idle"
                /\ animals' # <<>>
                /\ \A i \in 1 .. Len(animals') :
                      /\ animals'[i].satiation = 0
                      /\ animals'[i].chromosome =
                            IF TopSatiation(animals) > 0
                            THEN animals[FirstOfTopSatiation(animals)].chromosome
                            ELSE fresh'
           ELSE /\ pc' = "panic"
                /\ animals' = animals]_vars

\* C20 happens: choose_best has given the new animals the chromosome of an
\* animal that had eaten, other than that of the random animal it made.
C20_Witness ==
    /\ op = "choose_best"
    /\ pc = "idle"
    /\ fresh # <<>>
    /\ Len(animals) = PopulationSize
    /\ \A i \in 1 .. Len(animals) : animals[i].chromosome # fresh

\* steplog without its respawns.
Phases == SelectSeq(steplog, LAMBDA e : e.kind # "respawn")

\* Respawns of foods in steplog.
Respawns == SelectSeq(steplog, LAMBDA e : e.kind = "respawn")

\* The order of one step on n animals and m foods: every pair, animals
\* outer and foods inner, then every animal's decision, then every animal's
\* movement.
FixedOrder(n, m) ==
    [k \in 1 .. (n * m + 2 * n) |->
        IF k <= n * m
        THEN Did("interaction", ((k - 1) \div m) + 1, ((k - 1) % m) + 1)
        ELSE IF k <= n * m + n
             THEN Did("decision", k - n * m, 0)
             ELSE Did("movement", k - n * m - n, 0)]

IsPrefix(a, b) == Len(a) <= Len(b) /\ \A k \in 1 .. Len(a) : a[k] = b[k]

InStep == pc \in {"collisions", "brains", "movement", "age"}

\* C12: every step runs interaction over all pairs, then decision for all
\* animals, then movement for all animals, then the increment of the counter
\* and the boundary test; collisions are evaluated on the positions the
\* previous step's movement left, and the counter is incremented once per
\* step, after movement.
C12_PhaseOrder ==
    /\ [](InStep => IsPrefix(Phases, FixedOrder(Len(animals), Len(food_positions))))
    /\ [](pc = "age" => Phases = FixedOrder(Len(animals), Len(food_positions)))
    /\ []((InStep /\ pc # "age" /\ pc # "movement") => positions = entry.positions)
    /\ [](InStep => age = entry.age)
    /\ [][pc # "age" => age' = age]_vars
    /\ [][pc = "age" => \/ (age' = age + 1 /\ pc' = "idle" /\ age < GENERATION_LENGTH)
                         \/ (age' = 0 /\ pc' = "evolve" /\ age = GENERATION_LENGTH)]_vars
    /\ [][(pc = "idle" /\ pc' # "idle") => (pc' = "collisions" /\ positions' = positions)]_vars

\* C12 happens: the step that fires the boundary stands before its increment
\* of the counter, animals having eaten and moved in it.
C12_Witness ==
    /\ pc = "age"
    /\ age = GENERATION_LENGTH
    /\ Len(Respawns) > 0
    /\ \A i \in 1 .. Len(animals) : positions[i] # entry.positions[i]

RECURSIVE SumSatiation(_, _)
SumSatiation(sat, n) == IF n = 0 THEN 0 ELSE SumSatiation(sat, n - 1) + sat[n]

Satiations == [i \in 1 .. Len(animals) |-> animals[i].satiation]

\* The squared distance of two positions.
Distance2(p, q) == (p.x - q.x) * (p.x - q.x) + (p.y - q.y) * (p.y - q.y)

\* C13: the interaction phase visits the pairs animals outer, foods inner;
\* for a pair within the threshold exactly that animal's satiation rises by 1
\* and exactly that food gets a new random position, for any other pair
\* nothing changes; so the satiation gained in a step equals the respawns of
\* the step, and the numbers of animals and foods stay.
C13_Interaction ==
    /\ [][pc = "collisions"
          => /\ Len(Phases) = (ai - 1) * Len(food_positions) + (fi - 1)
             /\ Len(animals') = Len(animals)
             /\ Len(food_positions') = Len(food_positions)
             /\ positions' = positions
             /\ IF Distance2(positions[ai], food_positions[fi])
                     <= COLLISION_DISTANCE * COLLISION_DISTANCE
                THEN /\ animals'[ai].satiation = animals[ai].satiation + 1
                     /\ \A j \in 1 .. Len(animals) : j # ai => animals'[j] = animals[j]
                     /\ food_positions'[fi] \in FoodSpots
                     /\ \A g \in 1 .. Len(food_positions) :
                           g # fi => food_positions'[g] = food_positions[g]
                     /\ Len(steplog') = Len(steplog) + 2
                     /\ steplog'[Len(steplog')] = Did("respawn", ai, fi)
                ELSE /\ animals' = animals
                     /\ food_positions' = food_positions
                     /\ Len(steplog') = Len(steplog) + 1]_vars
    /\ []((pc \in {"brains", "movement", "age"})
            => /\ SumSatiation(Satiations, Len(animals))
                    - SumSatiation(entry.satiations, Len(entry.satiations))
                  = Len(Respawns)
               /\ Len(animals) = Len(entry.satiations)
               /\ Len(food_positions) = Len(entry.food_positions))
    /\ [][(InStep /\ pc # "collisions")
            => (animals' = animals /\ food_positions' = food_positions)]_vars

\* C13 happens: in one step a food was eaten by the first animal, respawned
\* within reach of the second and eaten again, while another pair was at
\* exactly the threshold.
C13_Witness ==
    /\ pc = "brains"
    /\ \E j, k \in 1 .. Len(steplog) :
          /\ j < k
          /\ steplog[j].kind = "respawn"
          /\ steplog[k].kind = "respawn"
          /\ steplog[j].food = steplog[k].food
          /\ steplog[j].animal # steplog[k].animal
    /\ \E i \in 1 .. Len(animals), f \in 1 .. Len(entry.food_positions) :
          Distance2(entry.positions[i], entry.food_positions[f])
              = COLLISION_DISTANCE * COLLISION_DISTANCE

\* C15: after the movement phase both coordinates of every animal's position
\* lie in [0, 1): the position is advanced and then wrapped, a coordinate
\* that reaches or passes 1 re-entering from 0 and one below 0 from 1.
C15_PositionsWrapped ==
    \A i \in 1 .. Len(positions) :
        /\ WRAP_MIN <= positions[i].x /\ positions[i].x < WRAP_MAX
        /\ WRAP_MIN <= positions[i].y /\ positions[i].y < WRAP_MAX

\* C19: choose_best replaces the animals but leaves the step counter and
\* the number of foods as they are; it is no generation boundary, so the next
\* boundary fires on the step that takes the counter past GENERATION_LENGTH
\* counted from the last evolve (or the construction), whatever choose_best
\* calls came between.
C19_ChooseBestKeepsAge ==
    /\ [][ChooseBest
            => /\ age' = age
               /\ foods' = foods
               /\ generation' = generation
               /\ ret' # "Some"
               /\ pc' = "idle"
               /\ Len(animals') = PopulationSize
               /\ \A i \in 1 .. Len(animals') : animals'[i].satiation = 0]_vars
    /\ [](pc = "idle" => age = since_evolve)
    /\ [][StepCall => ((pc' = "evolve") <=> (since_evolve = GENERATION_LENGTH))]_vars

\* C19 happens: choose_best was called after GENERATION_LENGTH steps of the
\* first generation, on animals that had eaten, the boundary still ahead.
C19_Witness ==
    /\ op = "choose_best"
    /\ pc = "idle"
    /\ generation = 0
    /\ age = GENERATION_LENGTH
    /\ since_evolve = GENERATION_LENGTH
    /\ fresh # <<>>
    /\ \A i \in 1 .. Len(animals) : animals[i].chromosome # fresh

\* C6: select on a non-empty population whose individuals all have fitness
\* <= 0 fails: it never returns an individual.
C6_SelectFailsOnNonPositive ==
    (call = "select" /\ Len(population) > 0
        /\ \A f \in Fitnesses(population) : f <= 0)
    => (pc # "done" /\ selected = 0)

\* C6 happens: a select on an all-non-positive population has panicked.
C6_Witness ==
    /\ call = "select"
    /\ pc = "panic"
    /\ Len(population) > 1
    /\ \A f \in Fitnesses(population) : f <= 0
    /\ 0 \in Fitnesses(population)

\* C7: on a population of non-negative fitness with at least one positive
\* fitness, select does not fail, what it returns is a member of positive
\* fitness, and every member of positive fitness is returned for some draw.
C7_SelectReturnsPositive ==
    (call = "select"
        /\ (\A f \in Fitnesses(population) : f >= 0)
        /\ (\E f \in Fitnesses(population) : f > 0))
    => /\ pc # "panic"
       /\ pc = "done" => /\ selected \in 1 .. Len(population)
                         /\ population[selected].fitness > 0
       /\ \A i \in 1 .. Len(population) :
             population[i].fitness > 0
             => \E s \in RawSelects : Select(population, s).index = i

\* C7 happens: select returned from a population that mixes zero and
\* positive fitness.
C7_Witness ==
    /\ call = "select"
    /\ pc = "done"
    /\ Len(population) = MaxSelectPop
    /\ population[1].fitness = 0
    /\ population[MaxSelectPop].fitness = 0
    /\ \A f \in Fitnesses(population) : f >= 0
    /\ selected > 1

\* C8: crossover of two parents of one length draws one coin per position in
\* position order, gene i of the child is parent A's on heads and parent B's on
\* tails, the child has the parents' length, and (differences from A) +
\* (differences from B) = (positions where A and B differ).
C8_CrossoverPerGene ==
    (call = "crossover" /\ Len(parent_a) = Len(parent_b) /\ pc # "crossover")
    => /\ pc \in {"coin", "done"}
       /\ Len(draws) = Len(child)
       /\ Len(flips) = Len(child)
       /\ \A i \in 1 .. Len(child) :
             /\ draws[i] = "coin"
             /\ flips[i] => child[i] = parent_a[i]
             /\ ~flips[i] => child[i] = parent_b[i]
       /\ pc = "done" =>
             /\ Len(child) = Len(parent_a)
             /\ DiffCount(child, parent_a) + DiffCount(child, parent_b)
                  = DiffCount(parent_a, parent_b)

\* C8 happens: a crossover of two different full-length parents returned a
\* child that took genes of both.
C8_Witness ==
    /\ call = "crossover"
    /\ pc = "done"
    /\ Len(parent_a) = MaxLen
    /\ Len(child) = MaxLen
    /\ DiffCount(parent_a, parent_b) = MaxLen
    /\ DiffCount(child, parent_a) > 0
    /\ DiffCount(child, parent_b) > 0

\* The draws of a mutate over n genes none of which was perturbed.
MissDraws(n) == [i \in 1 .. 2 * n |-> IF i % 2 = 1 THEN "sign" ELSE "chance_miss"]

\* C9: with chance = 0 mutate never writes a gene, whatever the coefficient:
\* the chromosome stays as handed in, and the call still makes the sign draw
\* and the chance draw of every gene.
C9_ZeroChanceUnchanged ==
    (call = "mutate" /\ chance = 0 /\ pc # "mutate")
    => /\ child = crossed
       /\ pc # "magnitude"
       /\ pc = "done" => draws = MissDraws(Len(child))

\* C9 happens: a mutate with chance 0 and a non-zero coefficient returned
\* from a full-length chromosome.
C9_Witness ==
    /\ call = "mutate"
    /\ chance = 0
    /\ coeff # 0
    /\ pc = "done"
    /\ Len(child) = MaxLen
    /\ Len(draws) = 2 * MaxLen

\* C10: with coefficient = 0 mutate leaves every gene at its value, whatever
\* the chance, also when the perturbation branch runs.
C10_ZeroCoeffUnchanged ==
    (call = "mutate" /\ coeff = 0 /\ pc # "mutate") => child = crossed

\* C10 happens: a mutate with coefficient 0 returned after perturbing a gene
\* every gene.
C10_Witness ==
    /\ call = "mutate"
    /\ coeff = 0
    /\ chance = ChanceDen
    /\ pc = "done"
    /\ Len(child) = MaxLen
    /\ Len(SelectSeq(draws, LAMBDA d : d = "magnitude")) = MaxLen

\* Every chromosome of the population has n genes.
UniformLength(pop, n) == \A i \in 1 .. Len(pop) : Len(pop[i].chromosome) = n

\* The positions of evolve at which the child has its full length.
ChildComplete == pc \in {"mutate", "sign", "chance", "magnitude", "create"}

\* evolve returns as many individuals as it was given, each of n genes, and
\* never fails; crossover's child and the chromosome under mutation have n
\* genes.
SameSizeAndLength(n) ==
    /\ pc # "panic"
    /\ ChildComplete => Len(child) = n
    /\ \A j \in 1 .. Len(offspring) : Len(offspring[j]) = n
    /\ pc = "done" => Len(offspring) = Len(population)

\* C3 as stated: for every non-empty population of chromosomes of one length
\* with at least one individual of positive fitness, evolve returns as many
\* individuals as it was given, each of that length.
C3_AsStated ==
    \A n \in 1 .. MaxLen :
        (call = "evolve" /\ Len(population) > 0 /\ UniformLength(population, n)
            /\ \E f \in Fitnesses(population) : f > 0)
        => SameSizeAndLength(n)

\* C3, amended: the same for every such population in which moreover no
\* individual has negative fitness.
C3_SizeAndLengthPreserved ==
    \A n \in 1 .. MaxLen :
        (call = "evolve" /\ Len(population) > 0 /\ UniformLength(population, n)
            /\ (\E f \in Fitnesses(population) : f > 0)
            /\ (\A f \in Fitnesses(population) : f >= 0))
        => SameSizeAndLength(n)

\* C3 happens: evolve returned a full population of full-length chromosomes,
\* one of them changed by mutation.
C3_Witness ==
    /\ call = "evolve"
    /\ pc = "done"
    /\ Len(population) = MaxPop
    /\ UniformLength(population, MaxLen)
    /\ Len(offspring) = MaxPop
    /\ \E j \in 1 .. MaxPop : \E i \in 1 .. MaxLen : offspring[j][i] \notin GeneValues

RECURSIVE DrawPhase(_, _, _, _, _)
\* The draw the stated order expects after the first i - 1 draws of a log, for
\* chromosomes of n genes: "a" and "b" the two parent selections, "coin" the
\* flip of gene k, "sign", "chance" and "magnitude" the draws of gene k in
\* mutation; "bad" when a draw of the log is not the expected one.
DrawPhase(log, i, phase, k, n) ==
    IF i > Len(log) THEN phase
    ELSE LET d == log[i]
             nextGene == IF k < n THEN "sign" ELSE "a"
         IN  CASE phase = "a" /\ d = "select_a" -> DrawPhase(log, i + 1, "b", 1, n)
               [] phase = "b" /\ d = "select_b" -> DrawPhase(log, i + 1, "coin", 1, n)
               [] phase = "coin" /\ d = "coin" ->
                     IF k < n THEN DrawPhase(log, i + 1, "coin", k + 1, n)
                     ELSE DrawPhase(log, i + 1, "sign", 1, n)
               [] phase = "sign" /\ d = "sign" -> DrawPhase(log, i + 1, "chance", k, n)
               [] phase = "chance" /\ d = "chance_hit" ->
                     DrawPhase(log, i + 1, "magnitude", k, n)
               [] phase = "chance" /\ d = "chance_miss" ->
                     DrawPhase(log, i + 1, nextGene, k + 1, n)
               [] phase = "magnitude" /\ d = "magnitude" ->
                     DrawPhase(log, i + 1, nextGene, k + 1, n)
               [] OTHER -> "bad"

Count(log, d) == Len(SelectSeq(log, LAMBDA x : x = d))

\* C4: evolve draws in the stated order: per offspring, in turn, parent A,
\* parent B, one coin per gene, then per gene a sign draw, a chance draw and,
\* only on a hit, a magnitude draw; the draws of an offspring all come before
\* those of the next, and a returned evolve has drawn for exactly N offspring.
C4_DrawOrder ==
    LET n == IF population = <<>> THEN 0 ELSE Len(population[1].chromosome)
        phase == DrawPhase(draws, 1, "a", 1, n)
        begun == Count(draws, "select_a")
    IN  (call = "evolve" /\ n > 0 /\ UniformLength(population, n))
        => /\ phase # "bad"
           /\ begun \in {Len(offspring), Len(offspring) + 1}
           /\ pc \in {"select_a", "create", "done"}
                 => begun = slot + (IF pc = "create" THEN 1 ELSE 0)
           /\ pc = "done" => /\ phase = "a"
                             /\ begun = Len(population)
                             /\ Count(draws, "select_b") = Len(population)
                             /\ Count(draws, "sign") = n * Len(population)

\* C4 happens: an evolve of a full population returned after drawing a
\* magnitude for one gene and none for another.
C4_Witness ==
    /\ call = "evolve"
    /\ pc = "done"
    /\ Len(population) = MaxPop
    /\ UniformLength(population, MaxLen)
    /\ Count(draws, "chance_hit") > 0
    /\ Count(draws, "chance_miss") > 0
    /\ Count(draws, "magnitude") = Count(draws, "chance_hit")

\* Gene i of chromosome c is gene i of some member of the input population.
FromPopulation(c) ==
    \A i \in 1 .. Len(c) :
        \E j \in 1 .. Len(population) :
            /\ i <= Len(population[j].chromosome)
            /\ c[i] = population[j].chromosome[i]

\* C5: both parents are chromosomes of members of the input population, every
\* gene of the child as crossover returns it (before mutation) is the gene at
\* that position of some member of the input population, and the input
\* population is never written.
C5_ParentsFromInput ==
    /\ [](call = "evolve" =>
            /\ parent_a # <<>> => \E j \in 1 .. Len(population) :
                                      parent_a = population[j].chromosome
            /\ parent_b # <<>> => \E j \in 1 .. Len(population) :
                                      parent_b = population[j].chromosome
            /\ pc \in {"coin", "mutate"} => FromPopulation(child)
            /\ pc \in {"sign", "chance", "magnitude", "create"} => FromPopulation(crossed))
    /\ [][population' = population]_vars

\* C5 happens: a later offspring's crossover has returned, mixing two
\* parents, after an earlier offspring got a gene no input member has.
C5_Witness ==
    /\ call = "evolve"
    /\ pc = "mutate"
    /\ slot >= 1
    /\ ~FromPopulation(offspring[1])
    /\ child # parent_a
    /\ child # parent_b

====
